---- MODULE Spec2Model ----
(***************************************************************************)
(* The image-classification endpoint of 2_Deploying_ML_Models.ipynb: the   *)
(* module-scope bootstrap (app, model, transform, route) and the           *)
(* asynchronous handler predict(), run by a single event loop.             *)
(* Indices are 0-based as in Python.                                       *)
(***************************************************************************)
EXTENDS Integers, Sequences, FiniteSets, TLC

\* ------------------------------------------------------------------ bounds
\* Request slots (connections that may be open at the same time).
MaxReqs == 2
\* Size of the label space in the model (resnet18 has 1000 classes).
NumClasses == 3
\* Checkpoint values range over 0..MaxScore, so that score vectors tie.
MaxScore == 1
\* Pixel contents of an image are one of 0..MaxPix.
MaxPix == 1
\* Source widths and heights are 1 and DimStep*k for k in 1..MaxDimK.
DimStep == 150
MaxDimK == 2

\* ------------------------------------------------- constants of the program
\* transforms.Resize(256)
ResizeTo == 256
\* transforms.CenterCrop(224)
CropSize == 224
\* transforms.Normalize(mean=[...3 values], std=[...3 values])
NormChannels == 3

Reqs == 1..MaxReqs
Classes == 0..(NumClasses - 1)
Dims == {1} \cup {DimStep * k : k \in 1..MaxDimK}
Min2(a, b) == IF a <= b THEN a ELSE b

\* ------------------------------------------------------------ uploaded files
\* What a client puts in the multipart field `file`. kind "missing" is a
\* request without the field; "empty" is a field of zero bytes; "garbage" is
\* bytes that are no image; "truncated" is a valid header whose pixel data
\* is cut short; "image" is a complete JPEG or PNG.
NoFile == [kind |-> "missing", fmt |-> "-", mode |-> "-", w |-> 0, h |-> 0, pix |-> 0]
EmptyFile == [NoFile EXCEPT !.kind = "empty"]
GarbageFile == [NoFile EXCEPT !.kind = "garbage"]
FormatModes ==
    {<<"JPEG", "L">>, <<"JPEG", "RGB">>, <<"JPEG", "CMYK">>,
     <<"PNG", "L">>, <<"PNG", "P">>, <<"PNG", "RGB">>, <<"PNG", "RGBA">>}
ImageFiles ==
    {[kind |-> "image", fmt |-> fm[1], mode |-> fm[2], w |-> w, h |-> h, pix |-> p] :
        fm \in FormatModes, w \in Dims, h \in Dims, p \in 0..MaxPix}
TruncatedFiles == {[f EXCEPT !.kind = "truncated"] : f \in {g \in ImageFiles : g.mode = "RGB" /\ g.w = g.h}}
AllFiles == {NoFile, EmptyFile, GarbageFile} \cup TruncatedFiles \cup ImageFiles
\* The files used when several clients upload at the same time.
FewFiles ==
    {NoFile, EmptyFile} \cup
    {f \in ImageFiles : /\ f.fmt = "PNG" /\ f.mode \in {"L", "RGB"}
                         /\ f.w = 1 /\ f.h = 1 /\ f.pix \in {0, MaxPix}}

\* ------------------------------------------------------ values of the locals
\* A Python value held by a local of predict(): None, a PIL image or a tensor.
\* box is <<left, top, right, bottom>> of the crop inside the resized image
\* of size rsz.
None == [kind |-> "None", mode |-> "-", size |-> <<0, 0>>, shape |-> <<>>, pix |-> 0,
         complete |-> TRUE, rsz |-> <<0, 0>>, box |-> <<0, 0, 0, 0>>]
NoScores == [k \in Classes |-> 0]
NoIndex == 0 - 1
NoLocals == [image_data |-> NoFile, image |-> None, output |-> NoScores, predicted_index |-> NoIndex]

\* ------------------------------------------------------------------- PIL
\* Image.open(io.BytesIO(image_data)): identifies the format from the header
\* and reads mode and size; pixel data is loaded lazily.
OpenOk(data) == data.kind \in {"image", "truncated"}
ImageOpen(data) ==
    [None EXCEPT !.kind = "PIL", !.mode = data.mode, !.size = <<data.w, data.h>>,
                 !.pix = data.pix, !.complete = (data.kind = "image")]

\* ----------------------------------------------------------- torchvision
\* Resize(size) with an int: the shorter edge becomes size, the longer one
\* int(size * long / short).
ResizeSizeDownOnly(w, h, size) ==
    IF Min2(w, h) <= size THEN <<w, h>>
    ELSE IF w < h THEN <<size, (size * h) \div w>> ELSE <<(size * w) \div h, size>>
ResizeSize(w, h, size) ==
    IF (w <= h /\ w = size) \/ (h <= w /\ h = size) THEN <<w, h>>
    ELSE IF w < h THEN <<size, (size * h) \div w>>
    ELSE <<(size * w) \div h, size>>

\* int(round(n / 2.0)) of Python 3: halves round to the even neighbour.
RoundHalf(n) ==
    IF n % 2 = 0 THEN n \div 2
    ELSE IF (n \div 2) % 2 = 0 THEN n \div 2 ELSE (n \div 2) + 1

\* CenterCrop(crop) on an image of size w x h: an image smaller than the crop
\* is first padded (left/top by (crop - w) // 2); the box is given in the
\* coordinates of the unpadded image, so padding shows as a box outside it.
CenterCropBox(w, h, crop) ==
    LET padL == IF crop > w THEN (crop - w) \div 2 ELSE 0
        padT == IF crop > h THEN (crop - h) \div 2 ELSE 0
        pw   == IF crop > w THEN crop ELSE w
        ph   == IF crop > h THEN crop ELSE h
        left == RoundHalf(pw - crop) - padL
        top  == RoundHalf(ph - crop) - padT
    IN  <<left, top, left + crop, top + crop>>

\* ToTensor(): one channel per band of the PIL mode.
Channels(mode) ==
    CASE mode = "L" -> 1
      [] mode = "P" -> 1
      [] mode = "RGB" -> 3
      [] mode = "RGBA" -> 4
      [] mode = "CMYK" -> 4
      [] OTHER -> 0

\* transform = Compose([Resize, CenterCrop, ToTensor, Normalize]).
\* Resize loads the pixel data (OSError on a truncated file); Normalize
\* subtracts a mean of NormChannels entries in place, which raises a
\* RuntimeError unless the tensor has exactly that many channels.
NoTransform == [defined |-> FALSE, resize |-> 0, crop |-> 0, channels |-> 0]
Compose == [defined |-> TRUE, resize |-> ResizeTo, crop |-> CropSize, channels |-> NormChannels]
TransformErrorLax(tf, img) == IF ~img.complete THEN "OSError" ELSE "-"
TransformError(tf, img) ==
    IF ~img.complete THEN "OSError"
    ELSE IF Channels(img.mode) # tf.channels THEN "RuntimeError"
    ELSE "-"
Transform(tf, img) ==
    LET rs  == ResizeSize(img.size[1], img.size[2], tf.resize)
        bx  == CenterCropBox(rs[1], rs[2], tf.crop)
    IN  [img EXCEPT !.kind = "Tensor",
                    !.size = <<bx[3] - bx[1], bx[4] - bx[2]>>,
                    !.shape = <<Channels(img.mode), bx[4] - bx[2], bx[3] - bx[1]>>,
                    !.rsz = rs, !.box = bx]
\* image.unsqueeze(0)
Unsqueeze(t) == [t EXCEPT !.shape = <<1>> \o t.shape]

\* ------------------------------------------------------------------ torch
\* models.resnet18(pretrained=True): a module in training mode holding the
\* checkpoint's weights; stats stands for the BatchNorm running statistics
\* (num_batches_tracked).
NoModel == [loaded |-> FALSE, training |-> FALSE, weights |-> NoScores, stats |-> 0]
Resnet18(ckpt) == [loaded |-> TRUE, training |-> TRUE, weights |-> ckpt, stats |-> 0]
\* model.eval()
EvalModeOmitted(m) == m
EvalMode(m) == [m EXCEPT !.training = FALSE]

\* The network is opaque: its scores are some fixed function of the weights,
\* the normalisation statistics and the input. Here class k scores the
\* weight at (k + pix + s) mod NumClasses.
Logits(weights, s, x) == [k \in Classes |-> weights[(k + x.pix + s) % NumClasses]]

\* model(image): in evaluation mode BatchNorm normalises with the running
\* statistics and leaves them alone; in training mode it normalises with
\* the statistics of the batch and updates the running ones (torch.no_grad
\* does not stop that).
ForwardPassStateful(m, x) ==
    [out |-> Logits(m.weights, m.stats, x),
     model |-> [m EXCEPT !.stats = (@ + 1) % NumClasses]]
ForwardPass(m, x) ==
    IF m.training
    THEN [out |-> Logits(m.weights, x.pix + 1, x), model |-> [m EXCEPT !.stats = @ + 1]]
    ELSE [out |-> Logits(m.weights, m.stats, x), model |-> m]

\* output.argmax(1).item(): the index of the first maximal value.
RECURSIVE ArgMaxLastFrom(_, _, _)
ArgMaxLastFrom(s, k, best) ==
    IF k >= NumClasses THEN best
    ELSE ArgMaxLastFrom(s, k + 1, IF s[k] >= s[best] THEN k ELSE best)
ArgMaxLast(s) == ArgMaxLastFrom(s, 1, 0)
RECURSIVE ArgMaxFrom(_, _, _)
ArgMaxFrom(s, k, best) ==
    IF k >= NumClasses THEN best
    ELSE ArgMaxFrom(s, k + 1, IF s[k] > s[best] THEN k ELSE best)
ArgMax(s) == ArgMaxFrom(s, 1, 0)

\* --------------------------------------------------------------- responses
NoResp == [status |-> 0, json |-> FALSE, body |-> "-", predicted_class |-> NoIndex]
\* JSONResponse(content={"predicted_class": predicted_index})
JSONResponse(i) == [status |-> 200, json |-> TRUE, body |-> "predicted_class", predicted_class |-> i]
\* FastAPI's answer to a request without the required field `file`.
ValidationResponse == [NoResp EXCEPT !.status = 422, !.json = TRUE, !.body = "detail"]
\* The framework's answer to a path the app has no route for.
NotFoundResponse == [NoResp EXCEPT !.status = 404, !.json = TRUE, !.body = "detail"]
\* The framework's answer when the handler raises: plain text.
ServerErrorResponse == [NoResp EXCEPT !.status = 500, !.body = "Internal Server Error"]

\* predict() run on its own, start to end, on the upload f.
HandlePredict(tf, m, f) ==
    IF f.kind = "missing" THEN ValidationResponse
    ELSE IF ~OpenOk(f) THEN ServerErrorResponse
    ELSE IF TransformError(tf, ImageOpen(f)) # "-" THEN ServerErrorResponse
    ELSE JSONResponse(ArgMax(ForwardPass(m, Unsqueeze(Transform(tf, ImageOpen(f)))).out))

\* ------------------------------------------------------------------- state
VARIABLES
    boot,        \* how far the module-scope code of main.py has run
    app,         \* the routes registered on app
    model,       \* the module-level model
    transform,   \* the module-level transform
    loads,       \* how many times the weights were loaded
    checkpoint,  \* the pretrained weights resnet18 loads (fixed)
    corpus,      \* which files the clients upload: "few" or "all" (fixed)
    conns,       \* how many requests the clients keep open at once (fixed)
    req,         \* per request slot: position, request, exception, response
    frames,      \* the locals of each running call of predict()
    running,     \* the request whose code the event loop is running, or 0
    everFailed   \* whether a forward pass has failed so far

vars == <<boot, app, model, transform, loads, checkpoint, corpus, conns,
          req, frames, running, everFailed>>
static == <<checkpoint, corpus, conns>>
module == <<app, model, transform, loads>>

PredictRoute == "POST /predict/"
RootRoute == "GET /"
Idle == [pc |-> "idle", route |-> "-", file |-> NoFile, exc |-> "-", resp |-> NoResp,
         sawFailure |-> FALSE]

\* Each call of predict() has its own locals.
SharedBuffer(r) == 1
Frame(r) == r

InFlight == {r \in Reqs : req[r].pc # "idle"}

\* The files a client may upload.
Uploads == IF corpus = "all" THEN AllFiles ELSE FewFiles
\* Checkpoints: every weight vector, or only those with a single peak.
AllCheckpoints == [Classes -> 0..MaxScore]
PeakCheckpoints == {[k \in Classes |-> IF k = c THEN MaxScore ELSE 0] : c \in Classes}

InitWith(files, n, ckpts) ==
    /\ boot = "start"
    /\ app = {}
    /\ model = NoModel
    /\ transform = NoTransform
    /\ loads = 0
    /\ checkpoint \in ckpts
    /\ corpus = files
    /\ conns = n
    /\ req = [r \in Reqs |-> Idle]
    /\ frames = [r \in Reqs |-> NoLocals]
    /\ running = 0
    /\ everFailed = FALSE

\* ------------------------------------------------- bootstrap (module scope)
\* app = FastAPI()
CreateApp ==
    /\ boot = "start"
    /\ boot' = "app"
    /\ app' = {}
    /\ UNCHANGED <<model, transform, loads, static, req, frames, running, everFailed>>

\* model = models.resnet18(pretrained=True)
LoadModel ==
    /\ boot = "app"
    /\ model' = Resnet18(checkpoint)
    /\ loads' = loads + 1
    /\ boot' = "model"
    /\ UNCHANGED <<app, transform, static, req, frames, running, everFailed>>

\* The same statement raising (weights cannot be fetched or read): the
\* import of the module fails and the server process exits.
LoadModelFails ==
    /\ boot = "app"
    /\ boot' = "crashed"
    /\ UNCHANGED <<module, static, req, frames, running, everFailed>>

\* model.eval()
SetEval ==
    /\ boot = "model"
    /\ model' = EvalMode(model)
    /\ boot' = "eval"
    /\ UNCHANGED <<app, transform, loads, static, req, frames, running, everFailed>>

\* transform = transforms.Compose([...])
DefineTransform ==
    /\ boot = "eval"
    /\ transform' = Compose
    /\ boot' = "transform"
    /\ UNCHANGED <<app, model, loads, static, req, frames, running, everFailed>>

\* @app.post("/predict/")
RegisterRoute ==
    /\ boot = "transform"
    /\ app' = app \cup {PredictRoute}
    /\ boot' = "routes"
    /\ UNCHANGED <<model, transform, loads, static, req, frames, running, everFailed>>

\* uvicorn main:app serves once the module is imported.
ServeBeforeImport == boot \in {"app", "routes"}
CanServe == boot = "routes"
StartServing ==
    /\ CanServe
    /\ boot' = "serving"
    /\ UNCHANGED <<module, static, req, frames, running, everFailed>>

\* ---------------------------------------------------------------- requests
\* A client sends a request; the framework has parsed the whole multipart
\* body when it looks for a handler.
Accept(r) ==
    /\ boot = "serving"
    /\ req[r].pc = "idle"
    /\ Cardinality(InFlight) < conns
    /\ \E q \in {<<PredictRoute, f>> : f \in Uploads} \cup {<<RootRoute, NoFile>>} :
          req' = [req EXCEPT ![r] = [Idle EXCEPT !.pc = "accepted", !.route = q[1],
                                                 !.file = q[2], !.sawFailure = everFailed]]
    /\ UNCHANGED <<boot, module, static, frames, running, everFailed>>

\* No route matches: 404, no handler runs.
RouteNotFound(r) ==
    /\ running = 0
    /\ req[r].pc = "accepted"
    /\ req[r].route \notin app
    /\ req' = [req EXCEPT ![r].pc = "done", ![r].resp = NotFoundResponse]
    /\ UNCHANGED <<boot, module, static, frames, running, everFailed>>

\* file: UploadFile = File(...): the field is required; without it the
\* framework answers 422 and predict() is not called.
ValidationError(r) ==
    /\ running = 0
    /\ req[r].pc = "accepted"
    /\ req[r].route \in app
    /\ req[r].file.kind = "missing"
    /\ req' = [req EXCEPT ![r].pc = "done", ![r].resp = ValidationResponse]
    /\ UNCHANGED <<boot, module, static, frames, running, everFailed>>

\* The event loop calls predict(file) and runs it up to file.read().
CallPredict(r) ==
    /\ running = 0
    /\ req[r].pc = "accepted"
    /\ req[r].route \in app
    /\ req[r].file.kind # "missing"
    /\ running' = r
    /\ req' = [req EXCEPT ![r].pc = "read"]
    /\ UNCHANGED <<boot, module, static, frames, everFailed>>

\* image_data = await file.read(), the upload held in memory: the read
\* returns at once and the coroutine is not suspended.
ReadInMemory(r) ==
    /\ running = r
    /\ req[r].pc = "read"
    /\ frames' = [frames EXCEPT ![Frame(r)].image_data = req[r].file]
    /\ req' = [req EXCEPT ![r].pc = "open"]
    /\ UNCHANGED <<boot, module, static, running, everFailed>>

\* image_data = await file.read(), the upload spooled to disk: the read
\* goes to a worker thread and the coroutine is suspended; the loop is free.
ReadSuspend(r) ==
    /\ running = r
    /\ req[r].pc = "read"
    /\ running' = 0
    /\ req' = [req EXCEPT ![r].pc = "reading"]
    /\ UNCHANGED <<boot, module, static, frames, everFailed>>

\* The worker thread finishes the read, whatever the loop is doing; its
\* result is what the coroutine binds to image_data.
ReadDone(r) ==
    /\ req[r].pc = "reading"
    /\ frames' = [frames EXCEPT ![Frame(r)].image_data = req[r].file]
    /\ req' = [req EXCEPT ![r].pc = "ready"]
    /\ UNCHANGED <<boot, module, static, running, everFailed>>

\* The loop, when free, resumes a coroutine whose read is complete.
ResumePreempting(r) ==
    /\ req[r].pc = "ready"
    /\ running' = r
    /\ req' = [req EXCEPT ![r].pc = "open"]
    /\ UNCHANGED <<boot, module, static, frames, everFailed>>
Resume(r) ==
    /\ running = 0
    /\ req[r].pc = "ready"
    /\ running' = r
    /\ req' = [req EXCEPT ![r].pc = "open"]
    /\ UNCHANGED <<boot, module, static, frames, everFailed>>

\* predict() has no try/except: an exception leaves the handler, the
\* framework logs it and answers 500; the server keeps running.
UnhandledCrash(r, e) ==
    /\ req' = [req EXCEPT ![r].pc = "done", ![r].exc = e]
    /\ frames' = [frames EXCEPT ![Frame(r)] = NoLocals]
    /\ running' = 0
    /\ boot' = "crashed"
UnhandledRetry(r, e) ==
    /\ req' = [req EXCEPT ![r].pc = "open", ![r].exc = e]
    /\ frames' = [frames EXCEPT ![Frame(r)].image = None]
    /\ running' = r
    /\ boot' = boot
Unhandled(r, e) ==
    /\ req' = [req EXCEPT ![r].pc = "done", ![r].exc = e, ![r].resp = ServerErrorResponse]
    /\ frames' = [frames EXCEPT ![Frame(r)] = NoLocals]
    /\ running' = 0
    /\ boot' = boot

\* image = Image.open(io.BytesIO(image_data))
Open(r) ==
    /\ running = r
    /\ req[r].pc = "open"
    /\ OpenOk(frames[Frame(r)].image_data)
    /\ frames' = [frames EXCEPT ![Frame(r)].image = ImageOpen(frames[Frame(r)].image_data)]
    /\ req' = [req EXCEPT ![r].pc = "transform"]
    /\ UNCHANGED <<boot, module, static, running, everFailed>>
OpenRaises(r) ==
    /\ running = r
    /\ req[r].pc = "open"
    /\ ~OpenOk(frames[Frame(r)].image_data)
    /\ Unhandled(r, "UnidentifiedImageError")
    /\ UNCHANGED <<module, static, everFailed>>

\* image = transform(image); image = image.unsqueeze(0)
TransformImage(r) ==
    /\ running = r
    /\ req[r].pc = "transform"
    /\ TransformError(transform, frames[Frame(r)].image) = "-"
    /\ frames' = [frames EXCEPT ![Frame(r)].image =
                      Unsqueeze(Transform(transform, frames[Frame(r)].image))]
    /\ req' = [req EXCEPT ![r].pc = "forward"]
    /\ UNCHANGED <<boot, module, static, running, everFailed>>
TransformRaises(r) ==
    /\ running = r
    /\ req[r].pc = "transform"
    /\ TransformError(transform, frames[Frame(r)].image) # "-"
    /\ Unhandled(r, TransformError(transform, frames[Frame(r)].image))
    /\ UNCHANGED <<module, static, everFailed>>

\* with torch.no_grad(): output = model(image)
Forward(r) ==
    /\ running = r
    /\ req[r].pc = "forward"
    /\ LET fp == ForwardPass(model, frames[Frame(r)].image)
       IN  /\ frames' = [frames EXCEPT ![Frame(r)].output = fp.out]
           /\ model' = fp.model
    /\ req' = [req EXCEPT ![r].pc = "argmax"]
    /\ UNCHANGED <<boot, app, transform, loads, static, running, everFailed>>

\* The forward pass failing (out of memory, a device error).
ForwardRaises(r) ==
    /\ running = r
    /\ req[r].pc = "forward"
    /\ Unhandled(r, "ModelError")
    /\ everFailed' = TRUE
    /\ UNCHANGED <<module, static>>

\* predicted_index = output.argmax(1).item()
TakeArgMax(r) ==
    /\ running = r
    /\ req[r].pc = "argmax"
    /\ frames' = [frames EXCEPT ![Frame(r)].predicted_index = ArgMax(frames[Frame(r)].output)]
    /\ req' = [req EXCEPT ![r].pc = "respond"]
    /\ UNCHANGED <<boot, module, static, running, everFailed>>

\* return JSONResponse(content={"predicted_class": predicted_index})
Respond(r) ==
    /\ running = r
    /\ req[r].pc = "respond"
    /\ req' = [req EXCEPT ![r].pc = "done",
                           ![r].resp = JSONResponse(frames[Frame(r)].predicted_index)]
    /\ frames' = [frames EXCEPT ![Frame(r)] = NoLocals]
    /\ running' = 0
    /\ UNCHANGED <<boot, module, static, everFailed>>

\* The client has its response; the slot is free for the next request.
Collect(r) ==
    /\ req[r].pc = "done"
    /\ req' = [req EXCEPT ![r] = Idle]
    /\ UNCHANGED <<boot, module, static, frames, running, everFailed>>

\* ---------------------------------------------------------- specifications
Bootstrap ==
    \/ CreateApp
    \/ LoadModel
    \/ LoadModelFails
    \/ SetEval
    \/ DefineTransform
    \/ RegisterRoute
    \/ StartServing

Serve ==
    \E r \in Reqs :
        \/ Accept(r)
        \/ RouteNotFound(r)
        \/ ValidationError(r)
        \/ CallPredict(r)
        \/ ReadInMemory(r)
        \/ ReadSuspend(r)
        \/ ReadDone(r)
        \/ Resume(r)
        \/ Open(r)
        \/ OpenRaises(r)
        \/ TransformImage(r)
        \/ TransformRaises(r)
        \/ Forward(r)
        \/ TakeArgMax(r)
        \/ Respond(r)
        \/ Collect(r)

Next == Bootstrap \/ Serve
NextFault == Next \/ \E r \in Reqs : ForwardRaises(r)

\* Several clients at once, a few files, no resource failures.
Init == InitWith("few", MaxReqs, PeakCheckpoints)
Spec == Init /\ [][Next]_vars
\* One client at a time, every file.
InitPipeline == InitWith("all", 1, AllCheckpoints)
SpecPipeline == InitPipeline /\ [][Next]_vars
\* The steps the event loop and the read worker take for request r.
Step(r) ==
    \/ RouteNotFound(r)
    \/ ValidationError(r)
    \/ CallPredict(r)
    \/ ReadInMemory(r)
    \/ ReadSuspend(r)
    \/ ReadDone(r)
    \/ Resume(r)
    \/ Open(r)
    \/ OpenRaises(r)
    \/ TransformImage(r)
    \/ TransformRaises(r)
    \/ Forward(r)
    \/ TakeArgMax(r)
    \/ Respond(r)
\* Several clients at once, a few files, forward passes that may fail.
SpecFault == Init /\ [][NextFault]_vars

\* ------------------------------------------------------------------ claims
Done(r) == req[r].pc = "done"
Predicts(r) == req[r].route = PredictRoute
ClientError(resp) == resp.status >= 400 /\ resp.status <= 499
InHandlerBody == {"open", "transform", "forward", "argmax", "respond"}
TooSmall(f) == f.kind = "image" /\ Min2(f.w, f.h) < CropSize
\* i is an arg-max of s and no earlier index reaches the maximum.
FirstArgMax(i, s) ==
    /\ i \in Classes
    /\ \A j \in Classes : s[i] >= s[j]
    /\ \A j \in Classes : j < i => s[j] < s[i]

\* C1 (as claimed; the code violates it): every request that uploads a valid
\* JPEG or PNG image, whatever its size and colour mode, is answered 200 with
\* a JSON body whose predicted_class is an integer in 0..N-1.
C1_ValidImageGetsClass ==
    \A r \in Reqs :
        (Done(r) /\ Predicts(r) /\ req[r].file.kind = "image") =>
            /\ req[r].resp.status = 200
            /\ req[r].resp.json
            /\ req[r].resp.predicted_class \in Classes

\* C2 (as claimed; the code violates it): a request whose file is missing,
\* empty or not a valid image is answered 4xx with a JSON body, never 5xx,
\* and the forward pass is not run for it.
C2_BadFileGetsClientError ==
    \A r \in Reqs :
        (Predicts(r) /\ req[r].file.kind # "image") =>
            /\ Done(r) => (ClientError(req[r].resp) /\ req[r].resp.json /\ req[r].exc = "-")
            /\ req[r].pc \notin {"argmax", "respond"}

\* C3 (as claimed; refuted): a decoded image too small for the 224x224 crop
\* (a 1x1 image) is rejected with a 4xx PreprocessError: it gets no
\* predicted_class and no tensor of it reaches the model. Stated for the
\* images of three channels, on which no other step of the handler raises.
C3_TinyImageRejected ==
    \A r \in Reqs :
        (Predicts(r) /\ TooSmall(req[r].file) /\ Channels(req[r].file.mode) = NormChannels) =>
            /\ Done(r) => (ClientError(req[r].resp) /\ req[r].resp.predicted_class = NoIndex)
            /\ req[r].pc \notin {"forward", "argmax", "respond"}

\* C3 (amended): a decoded image smaller than the crop is not rejected. The
\* resize makes its shorter edge exactly 256, the crop is a full 224x224
\* region inside the resized image (no padding), the tensor handed to the
\* model is 1x3x224x224, and the request is answered as any image of its
\* colour mode is: 200 with a class for three channels, 500 otherwise,
\* never 4xx.
C3_TinyImageUpsampled ==
    \A r \in Reqs :
        (Predicts(r) /\ TooSmall(req[r].file)) =>
            /\ req[r].pc \in {"forward", "argmax", "respond"} =>
                  LET t == frames[Frame(r)].image
                  IN  /\ t.kind = "Tensor"
                      /\ Min2(t.rsz[1], t.rsz[2]) = ResizeTo
                      /\ t.box[1] >= 0 /\ t.box[2] >= 0
                      /\ t.box[3] <= t.rsz[1] /\ t.box[4] <= t.rsz[2]
                      /\ t.shape = <<1, NormChannels, CropSize, CropSize>>
            /\ Done(r) =>
                  /\ ~ClientError(req[r].resp)
                  /\ (req[r].resp.status = 200) <=> (Channels(req[r].file.mode) = NormChannels)
                  /\ (req[r].resp.status # 200) => (req[r].resp.status = 500)
                  /\ (req[r].resp.status = 200) => (req[r].resp.predicted_class \in Classes)
\* A 1x1 image has been answered 200 with a class.
C3_TinyImageServed ==
    \E r \in Reqs :
        /\ Done(r) /\ Predicts(r)
        /\ req[r].file.kind = "image" /\ req[r].file.w = 1 /\ req[r].file.h = 1
        /\ req[r].resp.status = 200
        /\ req[r].resp.predicted_class \in Classes

\* C8: the class index the handler returns is an arg-max of the score vector
\* with ties broken by the lowest index: no score exceeds the chosen one and
\* every earlier score is strictly smaller.
C8_ArgMaxLowestIndex ==
    \A r \in Reqs :
        /\ req[r].pc = "respond" =>
               FirstArgMax(frames[Frame(r)].predicted_index, frames[Frame(r)].output)
        /\ (Done(r) /\ req[r].resp.status = 200) =>
               FirstArgMax(req[r].resp.predicted_class,
                           Logits(model.weights, model.stats,
                                  Unsqueeze(Transform(transform, ImageOpen(req[r].file)))))
\* An index has been chosen from a score vector whose maximum occurs twice.
C8_TieSeen ==
    \E r \in Reqs :
        /\ req[r].pc = "respond"
        /\ \E j \in Classes :
              /\ j # frames[Frame(r)].predicted_index
              /\ frames[Frame(r)].output[j] = frames[Frame(r)].output[frames[Frame(r)].predicted_index]

\* C5: under every interleaving of concurrent requests, each request works
\* on its own upload and is answered with what predict() computes from that
\* upload alone; nothing of another request shows in its locals or response.
C5_OwnBytesOwnAnswer ==
    \A r \in Reqs :
        /\ req[r].pc \in InHandlerBody \cup {"ready"} =>
               frames[Frame(r)].image_data = req[r].file
        /\ req[r].pc \in {"transform"} =>
               frames[Frame(r)].image = ImageOpen(req[r].file)
        /\ req[r].pc \in {"forward", "argmax", "respond"} =>
               frames[Frame(r)].image = Unsqueeze(Transform(transform, ImageOpen(req[r].file)))
        /\ (Done(r) /\ Predicts(r)) =>
               req[r].resp = HandlePredict(transform, model, req[r].file)
\* Two requests with different images are in progress together, one already
\* answered and the other about to answer with a different class.
C5_TwoInterleaved ==
    \E r, q \in Reqs :
        /\ r # q
        /\ Done(r) /\ req[r].resp.status = 200
        /\ req[q].pc = "respond"
        /\ req[q].file # req[r].file
        /\ frames[Frame(q)].predicted_index # req[r].resp.predicted_class

\* C6: two requests with byte-identical uploads get the identical outcome,
\* the same class or the same error, whatever ran before or in between:
\* the answer is a function of the upload and of what was loaded at startup.
C6_SameBytesSameOutcome ==
    /\ \A r, q \in Reqs :
          (Done(r) /\ Done(q) /\ req[r].route = req[q].route /\ req[r].file = req[q].file) =>
              /\ req[r].resp = req[q].resp
              /\ req[r].exc = req[q].exc
    /\ \A r \in Reqs :
          (Done(r) /\ Predicts(r)) =>
              req[r].resp = HandlePredict(Compose, EvalMode(Resnet18(checkpoint)), req[r].file)
\* Two requests that uploaded the same image have both been answered 200.
C6_SameImageTwice ==
    \E r, q \in Reqs :
        /\ r # q
        /\ Done(r) /\ Done(q)
        /\ req[r].file.kind = "image" /\ req[r].file = req[q].file
        /\ req[r].resp.status = 200 /\ req[q].resp.status = 200

\* C7: while serving, the module-level model is the one loaded at startup,
\* with the checkpoint's weights, untouched statistics and evaluation mode;
\* the transform is the one defined at startup; nothing was loaded again.
C7_ModelUnchanged ==
    boot = "serving" =>
        /\ model = EvalMode(Resnet18(checkpoint))
        /\ transform = Compose
        /\ loads = 1
\* A successful and a failing predict request have both been answered.
C7_AfterGoodAndBad ==
    /\ boot = "serving"
    /\ \E r, q \in Reqs :
          /\ Done(r) /\ req[r].resp.status = 200
          /\ Done(q) /\ req[q].resp.status = 500

\* C9: the model is loaded exactly once and before any request is accepted:
\* the server serves only with a loaded model, a request is only ever in the
\* system while it serves, and after a failed load it never serves.
C9_LoadedOnceBeforeServing ==
    /\ loads <= 1
    /\ boot = "serving" => (model.loaded /\ loads = 1)
    /\ \A r \in Reqs : req[r].pc # "idle" => (boot = "serving" /\ model.loaded)
    /\ boot = "crashed" => (~model.loaded /\ loads = 0 /\ \A r \in Reqs : req[r].pc = "idle")
\* A request is at its forward pass, on the model loaded once.
C9_ForwardOnLoadedModel ==
    \E r \in Reqs : req[r].pc = "forward" /\ model.loaded /\ loads = 1

\* C10 (as claimed; the code violates it): a request whose body has fully
\* arrived is never kept waiting by another request in progress, be that
\* one suspended in its body read or running decode, preprocess or forward.
C10_ReadyNeverWaits ==
    \A r, q \in Reqs :
        (/\ r # q
         /\ req[r].pc \in {"accepted", "ready"}
         /\ req[q].pc \in InHandlerBody \cup {"reading"}) =>
            running = 0

\* C4: a request whose forward pass fails is answered 500 and the server
\* keeps serving: the loop is released, and every other request, before,
\* during or after the failure, gets the answer it gets without any failure.
C4_ForwardFailureIsolated ==
    /\ everFailed => boot = "serving"
    /\ \A r \in Reqs :
          /\ (Done(r) /\ req[r].exc = "ModelError") =>
                 (req[r].resp.status = 500 /\ running # r)
          /\ (Done(r) /\ req[r].exc # "ModelError" /\ Predicts(r)) =>
                 req[r].resp = HandlePredict(transform, model, req[r].file)
          /\ (Done(r) /\ ~Predicts(r)) => req[r].resp = NotFoundResponse
\* A request accepted after a forward pass had failed has been answered 200.
C4_ServedAfterFailure ==
    \E r \in Reqs : req[r].sawFailure /\ Done(r) /\ req[r].resp.status = 200

\* How far a request is: each statement of predict() moves it forward.
Rank(pc) ==
    CASE pc = "idle" -> 0
      [] pc = "accepted" -> 1
      [] pc = "read" -> 2
      [] pc = "reading" -> 3
      [] pc = "ready" -> 4
      [] pc = "open" -> 5
      [] pc = "transform" -> 6
      [] pc = "forward" -> 7
      [] pc = "argmax" -> 8
      [] pc = "respond" -> 9
      [] pc = "done" -> 10
      [] OTHER -> 0 - 1

\* C11, one step of it: a request only moves forward through the body read,
\* decode, preprocess, forward pass and arg-max, so no step runs twice; a
\* step that raises ends the request at once with its response; a response,
\* once given, is never replaced, and a request leaves only answered.
C11_StepOnce ==
    \A r \in Reqs :
        /\ req'[r] # req[r] =>
              \/ Rank(req'[r].pc) > Rank(req[r].pc)
              \/ (Done(r) /\ req'[r] = Idle)
        /\ (req[r].pc # "idle" /\ req'[r].pc # "idle") =>
              (req'[r].route = req[r].route /\ req'[r].file = req[r].file)
        /\ (req[r].exc = "-" /\ req'[r].exc # "-") =>
              (req'[r].pc = "done" /\ req'[r].resp = ServerErrorResponse)
        /\ req[r].resp # NoResp => (req'[r].resp = req[r].resp \/ req'[r] = Idle)
        /\ (req[r].pc # "done" /\ req'[r].pc = "done") =>
              (req[r].resp = NoResp /\ req'[r].resp # NoResp)
        /\ (req[r].pc # "idle" /\ req'[r].pc = "idle") => req[r].resp # NoResp

\* C11, never left without a response: an unanswered request can always be
\* stepped, by the loop if it is free or runs it, by the read worker if it
\* is reading; otherwise the loop is running another request, which can be
\* stepped. With C11_StepOnce every request so reaches its one response.
C11_NeverStuck ==
    \A r \in Reqs :
        (req[r].pc \notin {"idle", "done"}) =>
            /\ running \in {0, r} => ENABLED Step(r)
            /\ running \notin {0, r} =>
                  (req[running].pc \in InHandlerBody \cup {"read"} /\ ENABLED Step(running))

\* C11: no retries. Every step of a request runs at most once and the first
\* failing step ends it; every accepted request gets exactly one response:
\* never two, and never none.
C11_NoRetryOneResponse == [][C11_StepOnce /\ C11_NeverStuck']_vars
\* One request has been answered after a step raised, another after every
\* step ran.
C11_FailedAndServed ==
    \E r, q \in Reqs :
        /\ Done(r) /\ req[r].exc # "-" /\ req[r].resp.status = 500
        /\ Done(q) /\ req[q].exc = "-" /\ req[q].resp.status = 200

\* C12: every tensor handed to the forward pass has the shape 1x3x224x224,
\* whatever the width, height and colour mode of the uploaded image, and the
\* transform that made it holds the fixed resize, crop and three-channel
\* normalisation constants. (An image of another channel count never gets
\* as far as the forward pass.)
C12_FixedTensorShape ==
    \A r \in Reqs :
        req[r].pc = "forward" =>
            /\ frames[Frame(r)].image.kind = "Tensor"
            /\ frames[Frame(r)].image.shape = <<1, 3, 224, 224>>
            /\ frames[Frame(r)].image.size = <<224, 224>>
            /\ transform = [defined |-> TRUE, resize |-> 256, crop |-> 224, channels |-> 3]
\* A tensor made from a wide image, lower than the crop and wider than the
\* resize, is at the forward pass.
C12_WideImageAtForward ==
    \E r \in Reqs :
        /\ req[r].pc = "forward"
        /\ req[r].file.h < CropSize /\ req[r].file.w > ResizeTo
        /\ frames[Frame(r)].image.rsz[1] > ResizeTo

\* C13, in a state: at most one request is between its completed body read
\* and its response, and it is the one the event loop is running.
C13_OneInBody ==
    /\ Cardinality({r \in Reqs : req[r].pc \in InHandlerBody}) <= 1
    /\ \A r \in Reqs : req[r].pc \in InHandlerBody => running = r
\* C13, in a step: the loop leaves a request it runs only at the body read
\* or with the request answered, and from decode on only answered; while a
\* request is between body read and response, nothing happens to another
\* request but its arrival, the end of its read in the worker thread, and
\* the client taking its response.
C13_NoInterleaving ==
    \A q \in Reqs :
        /\ (running = q /\ running' # q) =>
              (running' = 0 /\ req'[q].pc \in {"reading", "done"})
        /\ (req[q].pc \in InHandlerBody /\ running' # q) => req'[q].pc = "done"
        /\ req[q].pc \in InHandlerBody =>
              \A r \in Reqs \ {q} :
                  req'[r].pc # req[r].pc =>
                      <<req[r].pc, req'[r].pc>> \in
                          {<<"idle", "accepted">>, <<"reading", "ready">>, <<"done", "idle">>}

\* C13: the body read is the only suspension point of predict(); after it,
\* decode, preprocess, forward pass, arg-max and response run as one
\* uninterrupted stretch on the event loop, one request at a time.
C13_SingleSuspensionPoint == [][C13_NoInterleaving /\ C13_OneInBody']_vars
\* One request is at its forward pass while another, whose read the worker
\* thread has completed, waits for the loop.
C13_OneRunsOneWaits ==
    \E q, r \in Reqs :
        /\ q # r
        /\ req[q].pc = "forward" /\ running = q
        /\ req[r].pc = "ready"
        /\ frames[Frame(r)].image_data = req[r].file
====
